---------------------------- MODULE Spec2Model ----------------------------
(***************************************************************************)
(* A model of simSPI/tem_inputs.py: the helpers that turn a YAML           *)
(* description of a TEM simulation into the simulator's .inp and defocus   *)
(* files, read rotation metadata back, classify a configuration into       *)
(* ordered lists and append catalogue rows.                                *)
(*                                                                         *)
(* Text is modelled as sequences of one-character strings, a file as a     *)
(* sequence of lines, a Python dict as a function whose DOMAIN is its key  *)
(* set, and a Python value as a tagged record.                             *)
(***************************************************************************)
EXTENDS Integers, Sequences, FiniteSets, TLC

VARIABLES
    fs,          \* the file system: path -> file (or NoFile)
    log,         \* the records the most recent call sent to the root logger
    opened,      \* the <<path, mode>> pairs the most recent call opened, in order
    call,        \* the most recent call: its entry point and arguments
    outcome,     \* how the most recent call ended: returned value or raised error
    tem_inputs,  \* the dictionary the caller holds from the last successful builder call
    built_by,    \* the builder call that returned tem_inputs
    data_list,   \* the caller-owned catalogue row list
    rng          \* the state of the process-wide random generator

vars == <<fs, log, opened, call, outcome, tem_inputs, built_by, data_list, rng>>

-----------------------------------------------------------------------------
(* Python values *)

NoneV == [t |-> "none"]
IntV(n) == [t |-> "int", hi |-> 0, i |-> n]
\* An int too wide for one machine word of the checker: hi * Limb + i.
BigV(h, l) == [t |-> "int", hi |-> h, i |-> l]
\* A float with one decimal digit, held in tenths: FloatV(25) is 2.5.
FloatV(tenths) == [t |-> "float", i |-> tenths]
StrV(s) == [t |-> "str", s |-> s]
ListV(xs) == [t |-> "list", s |-> xs]
\* The angle d degrees converted to radians: d * pi / 180.
RadV(d) == [t |-> "float_rad", i |-> d]

Limb == 10 ^ 5

Abs(n) == IF n < 0 THEN 0 - n ELSE n

DigitChar == <<"0", "1", "2", "3", "4", "5", "6", "7", "8", "9">>

RECURSIVE Dec(_)
\* str(n) of a natural number n: its decimal digits.
Dec(n) == IF n < 10 THEN <<DigitChar[n + 1]>>
          ELSE Dec(n \div 10) \o <<DigitChar[(n % 10) + 1]>>

RECURSIVE PadLeft(_, _, _)
PadLeft(s, w, c) == IF Len(s) >= w THEN s ELSE PadLeft(<<c>> \o s, w, c)

\* str.zfill(width) of a string without a sign.
zfill(s, width) == PadLeft(s, width, "0")

\* What "{}".format(v) and f"{v}" write for a value.
PyStr(v) ==
    CASE v.t = "int" ->
            IF v.hi = 0
            THEN (IF v.i < 0 THEN <<"-">> ELSE <<>>) \o Dec(Abs(v.i))
            ELSE Dec(v.hi) \o zfill(Dec(v.i), 5)
      [] v.t = "float" ->
            (IF v.i < 0 THEN <<"-">> ELSE <<>>)
                \o Dec(Abs(v.i) \div 10) \o <<".">> \o Dec(Abs(v.i) % 10)
      [] v.t = "str" -> v.s
      [] v.t = "none" -> <<"N", "o", "n", "e">>
      [] OTHER -> <<"?">>

-----------------------------------------------------------------------------
(* Paths and the extension check every path-taking entry point starts with *)

UpperChars == <<"A", "I", "L", "M", "N", "P", "T", "X", "Y">>
LowerChars == <<"a", "i", "l", "m", "n", "p", "t", "x", "y">>

\* str.lower() on one character.
LowerChar(c) ==
    IF \E k \in 1..Len(UpperChars) : UpperChars[k] = c
    THEN LowerChars[CHOOSE k \in 1..Len(UpperChars) : UpperChars[k] = c]
    ELSE c

Lower(s) == [k \in 1..Len(s) |-> LowerChar(s[k])]

\* str.rfind(c), 1-based; 0 when c does not occur.
RFind(s, c) ==
    IF \E k \in 1..Len(s) : s[k] = c
    THEN CHOOSE k \in 1..Len(s) : s[k] = c /\ \A j \in (k + 1)..Len(s) : s[j] # c
    ELSE 0

\* PurePath.name: the final path component.
PathName(p) == SubSeq(p, RFind(p, "/") + 1, Len(p))

\* PurePath.suffix: the final component's last dot and what follows it, if
\* that dot is neither the first nor the last character of the component.
Suffix(p) ==
    LET name == PathName(p)
        i == RFind(name, ".")
    IN  IF 1 < i /\ i < Len(name) THEN SubSeq(name, i, Len(name)) ELSE <<>>

YML == <<".", "y", "m", "l">>
YAML == <<".", "y", "a", "m", "l">>
INP == <<".", "i", "n", "p">>
TXT == <<".", "t", "x", "t">>

\* Mutant: the suffix compared without .lower().
ExtensionRejectedCaseSensitive(path, allowed_types) ==
    \A k \in 1..Len(allowed_types) : allowed_types[k] # Suffix(path)

\* suffix.lower() not in allowed_types (a list)
ExtensionRejected(path, allowed_types) ==
    \A k \in 1..Len(allowed_types) : allowed_types[k] # Lower(Suffix(path))

-----------------------------------------------------------------------------
(* Text helpers *)

\* str.find(sub), 1-based; 0 when sub does not occur.
Find(s, sub) ==
    LET hits == {k \in 1..(Len(s) - Len(sub) + 1) : SubSeq(s, k, k + Len(sub) - 1) = sub}
    IN  IF hits = {} THEN 0 ELSE CHOOSE k \in hits : \A j \in hits : k <= j

\* s.split(sep)[0]: what precedes the first occurrence of sep, or all of s.
SplitFirst(s, sep) == IF Find(s, sep) = 0 THEN s ELSE SubSeq(s, 1, Find(s, sep) - 1)

MRC == <<".", "m", "r", "c">>
REAL_MRC == <<"_", "r", "e", "a", "l">> \o MRC
IMAG_MRC == <<"_", "i", "m", "a", "g">> \o MRC
YES == <<"y", "e", "s">>
NO == <<"n", "o">>

-----------------------------------------------------------------------------
(* Python dicts: functions; a missing key is a key outside the DOMAIN *)

EmptyDict == <<>>

\* d[a][b] does not raise KeyError
Has2(d, a, b) == a \in DOMAIN d /\ b \in DOMAIN d[a]

\* dict.get(key): the value, or None for a missing key
Get(d, key) == IF key \in DOMAIN d THEN d[key] ELSE NoneV

-----------------------------------------------------------------------------
(* populate_tem_input_parameter_dict *)

\* Mutant: the draw may exceed the upper end by one.
randint_past_end(a, b) ==
    { BigV(a[1], a[2]), BigV(a[1], a[2] + 1), BigV(b[1] - 1, Limb - 1),
      BigV(b[1], b[2]), BigV(b[1], b[2] + 1) }

\* random.randint(a, b) over wide ints <<hi, lo>>: any N with a <= N <= b.
\* The draws kept are the two ends and their inner neighbours.
randint(a, b) ==
    { BigV(a[1], a[2]), BigV(a[1], a[2] + 1), BigV(b[1] - 1, Limb - 1),
      BigV(b[1], b[2]) }

\* int(1e10) as <<hi, lo>>
SeedUpper == <<Limb, 0>>

\* The keys the builder reads without a try/except or a membership test.
RequiredKeys ==
    [ specimen_grid_params |->
          {"hole_diameter_nm", "hole_thickness_center_nm", "hole_thickness_edge_nm"},
      molecular_model |-> {"particle_name", "voxel_size_nm"},
      beam_parameters |->
          {"voltage_kv", "energy_spread_v", "electron_dose_std_e_per_nm2"},
      optics_parameters |->
          {"magnification", "spherical_aberration_mm", "chromatic_aberration_mm",
           "aperture_diameter_um", "focal_length_mm", "aperture_angle_mrad",
           "defocus_syst_error_um", "defocus_nonsyst_error_um"},
      detector_parameters |->
          {"detector_nx_px", "detector_ny_px", "detector_pixel_size_um",
           "average_gain_count_per_electron", "detector_q_efficiency", "mtf_params"},
      geometry_parameters |-> {"n_samples"} ]

\* No unguarded lookup of the builder raises KeyError.
BuilderLookupsSucceed(parameters, dose, noise) ==
    /\ \A sec \in DOMAIN RequiredKeys :
          /\ sec \in DOMAIN parameters
          /\ RequiredKeys[sec] \subseteq DOMAIN parameters[sec]
    /\ dose = NoneV => "electron_dose_e_per_nm2" \in DOMAIN parameters["beam_parameters"]
    /\ noise = NoneV => "noise" \in DOMAIN parameters["detector_parameters"]

\* The seed is taken from the configuration (no KeyError at line 127).
SeedConfigured(parameters) == Has2(parameters, "miscellaneous", "seed")

SimulationSection(parameters, log_file, seed_draw) ==
    [ seed |-> IF SeedConfigured(parameters) THEN parameters["miscellaneous"]["seed"]
               ELSE seed_draw,
      log_file |-> StrV(log_file) ]

NoiseSection(parameters) ==
    (IF Has2(parameters, "noise_parameters", "signal_to_noise")
     THEN "signal_to_noise" :> parameters["noise_parameters"]["signal_to_noise"]
     ELSE EmptyDict)
    @@
    (IF Has2(parameters, "noise_parameters", "signal_to_noise_db")
     THEN "signal_to_noise_db" :> parameters["noise_parameters"]["signal_to_noise_db"]
     ELSE EmptyDict)

SampleSection(parameters) ==
    [ diameter |-> parameters["specimen_grid_params"]["hole_diameter_nm"],
      thickness_center |-> parameters["specimen_grid_params"]["hole_thickness_center_nm"],
      thickness_edge |-> parameters["specimen_grid_params"]["hole_thickness_edge_nm"] ]

ParticleSection(parameters, pdb_file) ==
    LET mm == parameters["molecular_model"]
        base == [ name |-> mm["particle_name"],
                  voxel_size |-> mm["voxel_size_nm"],
                  pdb_file |-> StrV(pdb_file) ]
    IN  IF "particle_mrcout" \in DOMAIN mm
        THEN LET key == SplitFirst(mm["particle_mrcout"].s, MRC)
             IN  base @@ [ map_file_re_out |-> StrV(key \o REAL_MRC),
                           map_file_im_out |-> StrV(key \o IMAG_MRC) ]
        ELSE base @@ [ map_file_re_out |-> NoneV ]

ParticlesetSection(parameters, crd_file) ==
    [ name |-> parameters["molecular_model"]["particle_name"],
      crd_file |-> StrV(crd_file) ]

\* Mutant: the dose override is ignored.
BeamSectionYamlDose(parameters, dose) ==
    LET bp == parameters["beam_parameters"]
    IN  [ voltage |-> bp["voltage_kv"],
          spread |-> bp["energy_spread_v"],
          dose_per_im |-> bp["electron_dose_e_per_nm2"],
          dose_sd |-> bp["electron_dose_std_e_per_nm2"] ]

BeamSection(parameters, dose) ==
    LET bp == parameters["beam_parameters"]
    IN  [ voltage |-> bp["voltage_kv"],
          spread |-> bp["energy_spread_v"],
          dose_per_im |-> IF dose # NoneV THEN dose ELSE bp["electron_dose_e_per_nm2"],
          dose_sd |-> bp["electron_dose_std_e_per_nm2"] ]

\* Mutant: distribution_type alone counts as a full CTF block.
CtfConfiguredTypeOnly(parameters) ==
    Has2(parameters, "ctf_parameters", "distribution_type")

\* The full CTF block is there: neither lookup of lines 250-255 raises KeyError.
CtfConfigured(parameters) ==
    /\ Has2(parameters, "ctf_parameters", "distribution_type")
    /\ Has2(parameters, "ctf_parameters", "distribution_parameters")

OpticsSection(parameters, defocus_file) ==
    LET op == parameters["optics_parameters"]
    IN  [ magnification |-> op["magnification"],
          cs |-> op["spherical_aberration_mm"],
          cc |-> op["chromatic_aberration_mm"],
          aperture |-> op["aperture_diameter_um"],
          focal_length |-> op["focal_length_mm"],
          cond_ap_angle |-> op["aperture_angle_mrad"],
          defocus_file_out |-> IF "optics_defocusout" \in DOMAIN op
                               THEN op["optics_defocusout"] ELSE NoneV,
          defocus_nominal |-> IF "defocus_um" \in DOMAIN op THEN op["defocus_um"]
                              ELSE parameters["detector_parameters"]["mtf_params"].s[1],
          defocus_syst_error |-> op["defocus_syst_error_um"],
          defocus_nonsyst_error |-> op["defocus_nonsyst_error_um"],
          gen_defocus |-> IF CtfConfigured(parameters) THEN StrV(NO) ELSE StrV(YES),
          defocus_file_in |-> IF CtfConfigured(parameters) THEN StrV(defocus_file)
                              ELSE NoneV ]

DetectorSection(parameters, mrc_file, noise) ==
    LET dp == parameters["detector_parameters"]
        op == parameters["optics_parameters"]
    IN  [ mtf_a |-> IF "defocus_um" \in DOMAIN op THEN op["defocus_um"]
                    ELSE dp["mtf_params"].s[1],
          det_pix_x |-> dp["detector_nx_px"],
          det_pix_y |-> dp["detector_ny_px"],
          pixel_size |-> dp["detector_pixel_size_um"],
          gain |-> dp["average_gain_count_per_electron"],
          use_quantization |-> IF noise # NoneV THEN noise ELSE dp["noise"],
          dqe |-> dp["detector_q_efficiency"],
          mtf_b |-> dp["mtf_params"].s[2],
          mtf_c |-> dp["mtf_params"].s[3],
          mtf_alpha |-> dp["mtf_params"].s[4],
          mtf_beta |-> dp["mtf_params"].s[5],
          image_file_out |-> StrV(mrc_file) ]

GeometrySection(parameters) ==
    [ n_tilts |-> parameters["geometry_parameters"]["n_samples"] ]

\* dic["ctf"] after the try block: filled up to the first lookup that raised.
CtfSection(parameters) ==
    IF ~Has2(parameters, "ctf_parameters", "distribution_type") THEN EmptyDict
    ELSE IF ~Has2(parameters, "ctf_parameters", "distribution_parameters")
    THEN [ distribution_type |-> parameters["ctf_parameters"]["distribution_type"] ]
    ELSE [ distribution_type |-> parameters["ctf_parameters"]["distribution_type"],
           distribution_parameters |->
               parameters["ctf_parameters"]["distribution_parameters"] ]

\* The dictionary the builder returns when no lookup fails.
populate_dict(parameters, mrc_file, pdb_file, crd_file, log_file, defocus_file, dose, noise, seed_draw) ==
    [ simulation |-> SimulationSection(parameters, log_file, seed_draw),
      noise |-> NoiseSection(parameters),
      sample |-> SampleSection(parameters),
      particle |-> ParticleSection(parameters, pdb_file),
      particleset |-> ParticlesetSection(parameters, crd_file),
      beam |-> BeamSection(parameters, dose),
      optics |-> OpticsSection(parameters, defocus_file),
      detector |-> DetectorSection(parameters, mrc_file, noise),
      geometry |-> GeometrySection(parameters),
      ctf |-> CtfSection(parameters) ]

-----------------------------------------------------------------------------
(* write_tem_inputs_to_inp_file *)

\* The line "=== <name> ===" ("=== particle <arg> ===" when arg is not empty).
Hdr(name, arg) == [hdr |-> name, arg |-> arg]
\* The line "<key> = <val>".
KV(key, val) == [key |-> key, val |-> val]
Lit(key, word) == [key |-> key, val |-> word]

\* "{:d}".format(v) succeeds only for an int.
FormatsAsD(v) == v.t = "int"

SimulationLines(d) ==
    << Hdr("simulation", <<>>),
       Lit("generate_micrographs", YES),
       KV("rand_seed", PyStr(d["seed"])),
       KV("log_file", PyStr(d["log_file"])) >>

SampleFormats(d) ==
    /\ FormatsAsD(d["diameter"])
    /\ FormatsAsD(d["thickness_edge"])
    /\ FormatsAsD(d["thickness_center"])

SampleLines(d) ==
    << Hdr("sample", <<>>),
       KV("diameter", PyStr(d["diameter"])),
       KV("thickness_edge", PyStr(d["thickness_edge"])),
       KV("thickness_center", PyStr(d["thickness_center"])) >>

ParticleLines(d) ==
    << Hdr("particle", PyStr(d["name"])),
       Lit("source", <<"p", "d", "b">>),
       KV("voxel_size", PyStr(d["voxel_size"])),
       KV("pdb_file_in", PyStr(d["pdb_file"])) >>
    \o (IF d["map_file_re_out"] # NoneV
        THEN << KV("map_file_re_out", PyStr(d["map_file_re_out"])),
                KV("map_file_im_out", PyStr(d["map_file_im_out"])) >>
        ELSE <<>>)

ParticlesetLines(d) ==
    << Hdr("particleset", <<>>),
       KV("particle_type", PyStr(d["name"])),
       Lit("particle_coords", <<"f", "i", "l", "e">>),
       KV("coord_file_in", PyStr(d["crd_file"])) >>

GeometryLines(d) ==
    << Hdr("geometry", <<>>),
       Lit("gen_tilt_data", YES),
       Lit("tilt_axis", <<"0">>),
       KV("ntilts", PyStr(d["n_tilts"])),
       Lit("theta_start", <<"0">>),
       Lit("theta_incr", <<"0">>),
       Lit("geom_errors", <<"n", "o", "n", "e">>) >>

\* Mutant: the voltage and the energy spread land on each other's line.
BeamLinesSwapped(d) ==
    << Hdr("electronbeam", <<>>),
       KV("acc_voltage", PyStr(d["spread"])),
       KV("energy_spread", PyStr(d["voltage"])),
       Lit("gen_dose", YES),
       KV("dose_per_im", PyStr(d["dose_per_im"])),
       KV("dose_sd", PyStr(d["dose_sd"])) >>

BeamLines(d) ==
    << Hdr("electronbeam", <<>>),
       KV("acc_voltage", PyStr(d["voltage"])),
       KV("energy_spread", PyStr(d["spread"])),
       Lit("gen_dose", YES),
       KV("dose_per_im", PyStr(d["dose_per_im"])),
       KV("dose_sd", PyStr(d["dose_sd"])) >>

OpticsLines(d) ==
    << Hdr("optics", <<>>),
       KV("magnification", PyStr(d["magnification"])),
       KV("cs", PyStr(d["cs"])),
       KV("cc", PyStr(d["cc"])),
       KV("aperture", PyStr(d["aperture"])),
       KV("focal_length", PyStr(d["focal_length"])),
       KV("cond_ap_angle", PyStr(d["cond_ap_angle"])),
       KV("gen_defocus", PyStr(d["gen_defocus"])),
       KV("defocus_nominal", PyStr(d["defocus_nominal"])),
       KV("defocus_syst_error", PyStr(d["defocus_syst_error"])),
       KV("defocus_syst_error", PyStr(d["defocus_nonsyst_error"])) >>
    \o (IF d["defocus_file_out"] # NoneV
        THEN << KV("defocus_file_out", PyStr(d["defocus_file_out"])) >> ELSE <<>>)
    \o (IF d["defocus_file_in"] # NoneV
        THEN << KV("defocus_file_in", PyStr(d["defocus_file_in"])) >> ELSE <<>>)

DetectorLines(d) ==
    << Hdr("detector", <<>>),
       KV("det_pix_x", PyStr(d["det_pix_x"])),
       KV("det_pix_y", PyStr(d["det_pix_y"])),
       KV("pixel_size", PyStr(d["pixel_size"])),
       KV("gain", PyStr(d["gain"])),
       KV("use_quantization", PyStr(d["use_quantization"])),
       KV("dqe", PyStr(d["dqe"])),
       KV("mtf_a", PyStr(d["mtf_a"])),
       KV("mtf_b", PyStr(d["mtf_b"])),
       KV("mtf_c", PyStr(d["mtf_c"])),
       KV("mtf_alpha", PyStr(d["mtf_alpha"])),
       KV("mtf_beta", PyStr(d["mtf_beta"])),
       KV("image_file_out", PyStr(d["image_file_out"])) >>

\* What the writer has written when it returns or raises: the second write
\* raises ValueError when a sample field does not format as an integer, and
\* the file then holds the first write only.
inp_lines(inputs) ==
    IF ~SampleFormats(inputs["sample"]) THEN SimulationLines(inputs["simulation"])
    ELSE SimulationLines(inputs["simulation"])
         \o SampleLines(inputs["sample"])
         \o ParticleLines(inputs["particle"])
         \o ParticlesetLines(inputs["particleset"])
         \o GeometryLines(inputs["geometry"])
         \o BeamLines(inputs["beam"])
         \o OpticsLines(inputs["optics"])
         \o DetectorLines(inputs["detector"])

-----------------------------------------------------------------------------
(* write_tem_defocus_file_from_distribution *)

Banner ==
    << "#", " ", "F", "i", "l", "e", " ", "c", "r", "e", "a", "t", "e", "d", " ",
       "b", "y", " ", "T", "E", "M", "-", "s", "i", "m", "u", "l", "a", "t", "o", "r",
       ",", " ", "v", "e", "r", "s", "i", "o", "n", " ", "1", ".", "3", "." >>

\* Mutant: the count line is one too high.
defocus_lines_miscounted(distribution) ==
    << Banner, Dec(Len(distribution) + 1) \o <<" ", "1">> >>
    \o [k \in 1..Len(distribution) |-> PyStr(distribution[k])]

defocus_lines(distribution) ==
    << Banner, Dec(Len(distribution)) \o <<" ", "1">> >>
    \o [k \in 1..Len(distribution) |-> PyStr(distribution[k])]

-----------------------------------------------------------------------------
(* retrieve_rotation_metadata *)

RECURSIVE Split(_)
\* str.split(): the maximal runs of non-blank characters.
Split(line) ==
    IF line = <<>> THEN <<>>
    ELSE IF Head(line) = " " THEN Split(Tail(line))
    ELSE LET stop == IF \E k \in 1..Len(line) : line[k] = " "
                     THEN (CHOOSE k \in 1..Len(line) :
                               line[k] = " " /\ \A j \in 1..(k - 1) : line[j] # " ")
                     ELSE Len(line) + 1
         IN  <<SubSeq(line, 1, stop - 1)>> \o Split(SubSeq(line, stop, Len(line)))

IsDigit(c) == \E k \in 1..10 : DigitChar[k] = c
DigitVal(c) == (CHOOSE k \in 1..10 : DigitChar[k] = c) - 1

RECURSIVE NatOf(_)
NatOf(ds) == IF ds = <<>> THEN 0
             ELSE 10 * NatOf(SubSeq(ds, 1, Len(ds) - 1)) + DigitVal(ds[Len(ds)])

Unsigned(tok) == IF tok # <<>> /\ Head(tok) = "-" THEN Tail(tok) ELSE tok

\* float(tok) succeeds: the tokens read here are [-]digits, optionally
\* followed by a dot and one digit.
FloatParses(tok) ==
    LET u == Unsigned(tok)
        dot == RFind(u, ".")
        whole == IF dot = 0 THEN u ELSE SubSeq(u, 1, dot - 1)
        frac == IF dot = 0 THEN <<>> ELSE SubSeq(u, dot + 1, Len(u))
    IN  /\ whole # <<>>
        /\ \A k \in 1..Len(whole) : IsDigit(whole[k])
        /\ dot # 0 => Len(frac) = 1 /\ IsDigit(frac[1])

\* float(tok), in tenths.
FloatOf(tok) ==
    LET u == Unsigned(tok)
        dot == RFind(u, ".")
        whole == IF dot = 0 THEN u ELSE SubSeq(u, 1, dot - 1)
        mag == 10 * NatOf(whole) + (IF dot = 0 THEN 0 ELSE DigitVal(u[dot + 1]))
    IN  FloatV(IF u # tok THEN 0 - mag ELSE mag)

\* Mutant: only the first three lines are skipped.
DataLinesFromFourth(lines) == SubSeq(lines, 4, Len(lines))

\* The lines after the first four.
DataLines(lines) == SubSeq(lines, 5, Len(lines))

RowParses(line) == \A k \in 1..Len(Split(line)) : FloatParses(Split(line)[k])

ParseRow(line) == [k \in 1..Len(Split(line)) |-> FloatOf(Split(line)[k])]

rotation_metadata(lines) == [k \in 1..Len(DataLines(lines)) |-> ParseRow(DataLines(lines)[k])]

-----------------------------------------------------------------------------
(* classify_input_config *)

sim_params_structure ==
    << [ param_type |-> "molecular_model",
         param_order |-> <<"voxel_size_nm", "particle_name", "particle_mrcout">> ],
       [ param_type |-> "specimen_grid_params",
         param_order |-> <<"hole_diameter_nm", "hole_thickness_center_nm",
                           "hole_thickness_edge_nm", "particle_slice_pad">> ],
       [ param_type |-> "beam_parameters",
         param_order |-> <<"voltage_kv", "energy_spread_v", "electron_dose_e_nm2",
                           "electron_dose_std_e_per_nm2">> ],
       [ param_type |-> "optics_parameters",
         param_order |-> <<"magnification", "spherical_aberration_mm",
                           "chromatic_aberration_mm", "aperture_diameter_um",
                           "focal_length_mm", "aperture_angle_mrad", "defocus_um",
                           "defocus_syst_error_um", "defocus_nonsyst_error_um",
                           "optics_defocusout">> ],
       [ param_type |-> "detector_parameters",
         param_order |-> <<"detector_nx_px", "detector_ny_px", "detector_pixel_size_um",
                           "average_gain_count_per_electron", "noise",
                           "detector_q_efficiency", "mtf_params">> ] >>

ParamTypes == {sim_params_structure[k].param_type : k \in 1..Len(sim_params_structure)}

ParamOrder(param_type) ==
    (CHOOSE e \in {sim_params_structure[k] : k \in 1..Len(sim_params_structure)} :
         e.param_type = param_type).param_order

\* Mutant: .get(key, "") instead of .get(key).
ordered_params_default(raw_params, param_type) ==
    [k \in 1..Len(ParamOrder(param_type)) |->
        IF ParamOrder(param_type)[k] \in DOMAIN raw_params[param_type]
        THEN raw_params[param_type][ParamOrder(param_type)[k]]
        ELSE StrV(<<>>)]

\* [raw_params[param_type].get(key) for key in param_order]
ordered_params(raw_params, param_type) ==
    [k \in 1..Len(ParamOrder(param_type)) |->
        Get(raw_params[param_type], ParamOrder(param_type)[k])]

\* Mutant: the MTF list is appended whole instead of element by element.
flattened_params_nested(ordered) == SubSeq(ordered, 1, 6) \o <<ordered[7]>>

\* The detector list: its first six entries, then ordered_params[6][0..4].
flattened_params(ordered) ==
    SubSeq(ordered, 1, 6) \o [i \in 1..5 |-> ordered[7].s[i]]

\* The error the classifier raises, "none" when it returns.  The subsystems
\* are visited in schema order, the detector last.
classify_error(raw_params) ==
    IF ~(ParamTypes \subseteq DOMAIN raw_params) THEN "KeyError"
    ELSE LET mtf == Get(raw_params["detector_parameters"], "mtf_params")
         IN  IF mtf = NoneV THEN "TypeError"
             ELSE IF Len(mtf.s) < 5 THEN "IndexError"
             ELSE "none"

classify_input_config(raw_params) ==
    [param_type \in ParamTypes |->
        IF param_type # "detector_parameters"
        THEN ordered_params(raw_params, param_type)
        ELSE flattened_params(ordered_params(raw_params, param_type))]

-----------------------------------------------------------------------------
(* starfile_append_tem_simulator_data *)

MRCS == <<".", "m", "r", "c", "s">>

\* str(idx).zfill(3) + "@" + str(iterations).zfill(4) + ".mrcs"
image_name(idx, iterations) ==
    zfill(Dec(idx), 3) \o <<"@">> \o zfill(Dec(iterations), 4) \o MRCS

\* bool(x) of an optional mapping: None and the empty mapping are false.
Truthy(x) == x # NoneV /\ DOMAIN x # {}

\* 1e4 * x
Times1e4(x) == FloatV(10000 * x.i)

\* np.radians(x)
radians(x) == RadV(x.i)

\* list_var of loop index num (0-based).
list_var(num, rotation, contrast_transfer_function, projection_shift, iterations, config) ==
    << StrV(image_name(num, iterations)),
       rotation["relion_angle_rot"][num + 1],
       rotation["relion_angle_tilt"][num + 1],
       rotation["relion_angle_psi"][num + 1] >>
    \o (IF Truthy(projection_shift)
        THEN << projection_shift["shift_x"][num + 1],
                projection_shift["shift_y"][num + 1] >>
        ELSE <<>>)
    \o (IF Truthy(contrast_transfer_function)
        THEN << Times1e4(contrast_transfer_function["defocus_u"][num + 1]),
                Times1e4(contrast_transfer_function["defocus_v"][num + 1]),
                radians(contrast_transfer_function["defocus_angle"][num + 1]) >>
        ELSE <<>>)
    \o << config.kv, config.pixel_size, config.cs, config.amplitude_contrast,
          config.b_factor >>

\* Mutant: the new rows are put in front of the list.
prepended(list, rotation, contrast_transfer_function, projection_shift, iterations, config) ==
    [n \in 1..config.batch_size |->
        list_var(n - 1, rotation, contrast_transfer_function, projection_shift,
                 iterations, config)]
    \o list

\* data_list after the loop over range(config.batch_size).
appended(list, rotation, contrast_transfer_function, projection_shift, iterations, config) ==
    list \o [n \in 1..config.batch_size |->
                list_var(n - 1, rotation, contrast_transfer_function,
                         projection_shift, iterations, config)]

-----------------------------------------------------------------------------
(* The files and configurations the model runs on *)

NoFile == [kind |-> "absent"]
YamlFile(parameters) == [kind |-> "yaml", parameters |-> parameters]
TextFile(lines) == [kind |-> "text", lines |-> lines]

ConfigYml == <<"c", ".", "y", "m", "l">>
ConfigYAML == <<"c", ".", "Y", "A", "M", "L">>
AbsentYaml == <<"n", ".", "y", "a", "m", "l">>
SimInp == <<"s", ".", "i", "n", "p">>
SimINP == <<"s", ".", "I", "N", "P">>
CrdTxt == <<"d", ".", "t", "x", "t">>
DefTXT == <<"d", ".", "T", "x", "T">>
NoSuffix == <<"c">>
HiddenYml == <<".", "y", "m", "l">>
HiddenTxt == <<"o", "/", ".", "t", "x", "t">>
YmlBak == <<"c", ".", "y", "m", "l", ".", "b">>
DirYml == <<"o", ".", "y", "m", "l", "/", "c">>
TrailingDot == <<"d", ".", "t", "x", "t", ".">>
NoDot == <<"s", "i", "n", "p">>

ValidPaths == {ConfigYml, ConfigYAML, AbsentYaml, SimInp, SimINP, CrdTxt, DefTXT}
OddPaths == {NoSuffix, HiddenYml, HiddenTxt, YmlBak, DirYml, TrailingDot, NoDot}
AllPaths == ValidPaths \cup OddPaths

MrcFile == <<"o", "/", "m", ".", "m", "r", "c">>
PdbFile == <<"o", "/", "p", ".", "p", "d", "b">>
CrdFile == <<"o", "/", "c", ".", "t", "x", "t">>
LogFile == <<"o", "/", "l", ".", "l", "o", "g">>
DefocusFile == <<"o", "/", "f", ".", "t", "x", "t">>

\* A coordinate file: four header lines, then one row of angles per particle.
CrdLines ==
    << <<"#", " ", "c", "r", "d">>, <<"#">>, <<"2", " ", "6">>, <<"#", " ", "x">>,
       <<"1", "0", " ", "2", "0", ".", "5", " ", "-", "3">>,
       <<"0", ".", "1", " ", " ", "9", "0", " ", "4", "5", ".", "0">> >>

MtfParams == ListV(<<IntV(0), FloatV(7), FloatV(2), FloatV(1), IntV(10)>>)

\* A configuration with every required key; the arguments choose the optional
\* parts and the values the overrides compete with.
Config(seedMode, ctfMode, hasDefocus, hasMrcout, hasDefocusOut, variant) ==
    (CASE seedMode = "seed" -> [ miscellaneous |-> [ seed |-> IntV(1234) ] ]
       [] seedMode = "no_seed_key" -> [ miscellaneous |-> [ other |-> IntV(1) ] ]
       [] OTHER -> EmptyDict)
    @@
    (CASE ctfMode = "both" ->
            [ ctf_parameters |->
                [ distribution_type |-> StrV(<<"g">>),
                  distribution_parameters |-> ListV(<<FloatV(10), FloatV(3)>>) ] ]
       [] ctfMode = "type_only" ->
            [ ctf_parameters |-> [ distribution_type |-> StrV(<<"g">>) ] ]
       [] ctfMode = "params_only" ->
            [ ctf_parameters |->
                [ distribution_parameters |-> ListV(<<FloatV(10), FloatV(3)>>) ] ]
       [] OTHER -> EmptyDict)
    @@
    [ noise_parameters |-> [ signal_to_noise |-> FloatV(5) ],
      specimen_grid_params |->
        [ hole_diameter_nm |-> IntV(1200),
          hole_thickness_center_nm |-> IntV(100),
          hole_thickness_edge_nm |-> IntV(120) ],
      molecular_model |->
        (IF hasMrcout
         THEN [ particle_mrcout |-> StrV(<<"v", ".", "m", "r", "c">>) ]
         ELSE EmptyDict)
        @@ [ voxel_size_nm |-> FloatV(1), particle_name |-> StrV(<<"t", "o">>) ],
      beam_parameters |->
        [ voltage_kv |-> IntV(300),
          energy_spread_v |-> FloatV(13),
          electron_dose_e_per_nm2 |-> IF variant = 1 THEN IntV(100) ELSE FloatV(2005),
          electron_dose_std_e_per_nm2 |-> IntV(4) ],
      optics_parameters |->
        (IF hasDefocus THEN [ defocus_um |-> FloatV(15) ] ELSE EmptyDict)
        @@ (IF hasDefocusOut
            THEN [ optics_defocusout |-> StrV(<<"o", ".", "t", "x", "t">>) ]
            ELSE EmptyDict)
        @@ [ magnification |-> IntV(81000),
             spherical_aberration_mm |-> FloatV(27),
             chromatic_aberration_mm |-> FloatV(28),
             aperture_diameter_um |-> IntV(50),
             focal_length_mm |-> FloatV(35),
             aperture_angle_mrad |-> FloatV(1),
             defocus_syst_error_um |-> FloatV(3),
             defocus_nonsyst_error_um |-> FloatV(6) ],
      detector_parameters |->
        [ detector_nx_px |-> IntV(5760),
          detector_ny_px |-> IntV(4092),
          detector_pixel_size_um |-> IntV(5),
          average_gain_count_per_electron |-> IntV(2),
          noise |-> IF variant = 1 THEN StrV(NO) ELSE StrV(YES),
          detector_q_efficiency |-> FloatV(8),
          mtf_params |-> MtfParams ],
      geometry_parameters |-> [ n_samples |-> IntV(7) ] ]

SeedModes == {"seed", "no_seed_key", "no_miscellaneous"}
CtfModes == {"both", "type_only", "params_only", "absent"}

TemConfigs ==
    { Config(sm, cm, d, m, o, v) :
        sm \in SeedModes, cm \in CtfModes, d \in BOOLEAN, m \in BOOLEAN,
        o \in BOOLEAN, v \in {1, 2} }

PlainConfig == Config("seed", "both", TRUE, TRUE, TRUE, 1)

\* hole_diameter_nm given as a float: the .inp writer cannot format it with :d.
FloatDiameterConfig ==
    [ PlainConfig EXCEPT !["specimen_grid_params"]["hole_diameter_nm"] = FloatV(12005) ]

\* A configuration without its geometry_parameters block.
NoGeometryConfig ==
    [ sec \in DOMAIN PlainConfig \ {"geometry_parameters"} |-> PlainConfig[sec] ]

FilesConfigs == {PlainConfig, FloatDiameterConfig, NoGeometryConfig}

DoseArgs == {NoneV, IntV(5000)}
NoiseArgs == {NoneV, StrV(YES)}

-----------------------------------------------------------------------------
(* The entry points, one action each *)

Returned(value) == [status |-> "returned", value |-> value]
Raised(error) == [status |-> "raised", error |-> error]

\* log.error(f"`File Path : {path} must be of type(s) {allowed_types} ")
ErrorRecord(path, allowed_types) ==
    [level |-> "error", path |-> path, allowed_types |-> allowed_types]

CtfWarning == [level |-> "warning", about |-> "ctf_parameters"]

\* The extension check failed: log the error, raise TypeError, touch nothing.
Reject(path, allowed_types) ==
    /\ log' = <<ErrorRecord(path, allowed_types)>>
    /\ outcome' = Raised("TypeError")
    /\ opened' = <<>>
    /\ UNCHANGED <<fs, tem_inputs, built_by, data_list, rng>>

\* open(path) of a file that is not there.
NotFound ==
    /\ log' = <<>>
    /\ outcome' = Raised("FileNotFoundError")
    /\ opened' = <<>>
    /\ UNCHANGED <<fs, tem_inputs, built_by, data_list, rng>>

Populate(input_params_file, dose, noise) ==
    /\ call' = [op |-> "populate_tem_input_parameter_dict",
                path |-> input_params_file, mrc_file |-> MrcFile,
                pdb_file |-> PdbFile, crd_file |-> CrdFile, log_file |-> LogFile,
                defocus_file |-> DefocusFile, dose |-> dose, noise |-> noise]
    /\ IF ExtensionRejected(input_params_file, <<YML, YAML>>)
       THEN Reject(input_params_file, <<YML, YAML>>)
       ELSE IF fs[input_params_file] = NoFile THEN NotFound
       ELSE LET parameters == fs[input_params_file].parameters
            IN  \E seed_draw \in (IF SeedConfigured(parameters) THEN {NoneV}
                                  ELSE randint(<<0, 0>>, SeedUpper)) :
                  LET dic == populate_dict(parameters, MrcFile, PdbFile, CrdFile,
                                           LogFile, DefocusFile, dose, noise, seed_draw)
                  IN  /\ opened' = <<[path |-> input_params_file, mode |-> "r"]>>
                      /\ rng' = IF SeedConfigured(parameters) THEN rng ELSE "reseeded"
                      /\ IF BuilderLookupsSucceed(parameters, dose, noise)
                         THEN /\ outcome' = Returned(dic)
                              /\ tem_inputs' = dic
                              /\ built_by' = call'
                              /\ log' = IF CtfConfigured(parameters) THEN <<>>
                                        ELSE <<CtfWarning>>
                         ELSE /\ outcome' = Raised("KeyError")
                              /\ log' = <<>>
                              /\ UNCHANGED <<tem_inputs, built_by>>
                      /\ UNCHANGED <<fs, data_list>>

WriteInp(path) ==
    /\ tem_inputs # NoneV
    /\ call' = [op |-> "write_tem_inputs_to_inp_file", path |-> path]
    /\ IF ExtensionRejected(path, <<INP>>) THEN Reject(path, <<INP>>)
       ELSE /\ opened' = <<[path |-> path, mode |-> "w"]>>
            /\ fs' = [fs EXCEPT ![path] = TextFile(inp_lines(tem_inputs))]
            /\ outcome' = IF SampleFormats(tem_inputs["sample"]) THEN Returned(NoneV)
                          ELSE Raised("ValueError")
            /\ log' = <<>>
            /\ UNCHANGED <<tem_inputs, built_by, data_list, rng>>

WriteDefocus(path, distribution) ==
    /\ call' = [op |-> "write_tem_defocus_file_from_distribution",
                path |-> path, distribution |-> distribution]
    /\ IF ExtensionRejected(path, <<TXT>>) THEN Reject(path, <<TXT>>)
       ELSE /\ opened' = <<[path |-> path, mode |-> "w"]>>
            /\ fs' = [fs EXCEPT ![path] = TextFile(defocus_lines(distribution))]
            /\ outcome' = Returned(NoneV)
            /\ log' = <<>>
            /\ UNCHANGED <<tem_inputs, built_by, data_list, rng>>

Retrieve(path) ==
    /\ call' = [op |-> "retrieve_rotation_metadata", path |-> path]
    /\ IF ExtensionRejected(path, <<TXT>>) THEN Reject(path, <<TXT>>)
       ELSE IF fs[path] = NoFile THEN NotFound
       ELSE /\ opened' = <<[path |-> path, mode |-> "r"]>>
            /\ outcome' =
                 IF \A k \in 1..Len(DataLines(fs[path].lines)) :
                        RowParses(DataLines(fs[path].lines)[k])
                 THEN Returned(rotation_metadata(fs[path].lines))
                 ELSE Raised("ValueError")
            /\ log' = <<>>
            /\ UNCHANGED <<fs, tem_inputs, built_by, data_list, rng>>

Classify(raw_params) ==
    /\ call' = [op |-> "classify_input_config", raw_params |-> raw_params]
    /\ outcome' = IF classify_error(raw_params) = "none"
                  THEN Returned(classify_input_config(raw_params))
                  ELSE Raised(classify_error(raw_params))
    /\ log' = <<>>
    /\ opened' = <<>>
    /\ UNCHANGED <<fs, tem_inputs, built_by, data_list, rng>>

GetConfig(config_yaml) ==
    /\ call' = [op |-> "get_config_from_yaml", path |-> config_yaml]
    /\ IF ExtensionRejected(config_yaml, <<YAML, YML>>)
       THEN Reject(config_yaml, <<YAML, YML>>)
       ELSE IF fs[config_yaml] = NoFile THEN NotFound
       ELSE LET raw_params == fs[config_yaml].parameters
            IN  /\ opened' = <<[path |-> config_yaml, mode |-> "r"]>>
                /\ outcome' = IF classify_error(raw_params) = "none"
                              THEN Returned(classify_input_config(raw_params))
                              ELSE Raised(classify_error(raw_params))
                /\ log' = <<>>
                /\ UNCHANGED <<fs, tem_inputs, built_by, data_list, rng>>

StarAppend(rotation, contrast_transfer_function, projection_shift, iterations, config) ==
    /\ call' = [op |-> "starfile_append_tem_simulator_data",
                rotation |-> rotation, ctf |-> contrast_transfer_function,
                shift |-> projection_shift, iterations |-> iterations,
                config |-> config, before |-> data_list]
    /\ data_list' = appended(data_list, rotation, contrast_transfer_function,
                             projection_shift, iterations, config)
    /\ outcome' = Returned(data_list')
    /\ log' = <<>>
    /\ opened' = <<>>
    /\ UNCHANGED <<fs, tem_inputs, built_by, rng>>

-----------------------------------------------------------------------------
(* Inputs of the defocus writer, the classifier and the row builder *)

MaxDist == 3
MaxOmit == 2
MaxBatch == 2
MaxRows == 3
MaxLines == 6

SeqsUpTo(S, n) == UNION {[1..k -> S] : k \in 0..n}

\* Every sequence of the first and last value, and the three values in a row.
Distributions ==
    SeqsUpTo({FloatV(10), FloatV(-30)}, MaxDist)
    \cup {<<FloatV(10), FloatV(25), FloatV(-30)>>}

Omit(d, keys) == [k \in DOMAIN d \ keys |-> d[k]]

\* A raw configuration holding every schema key of every subsystem.
FullRaw(mtf) ==
    [ PlainConfig EXCEPT
        !["specimen_grid_params"] = @ @@ [ particle_slice_pad |-> IntV(3) ],
        !["beam_parameters"] = @ @@ [ electron_dose_e_nm2 |-> IntV(150) ],
        !["detector_parameters"] = [ @ EXCEPT !["mtf_params"] = mtf ] ]

SchemaKeys ==
    UNION { { <<sim_params_structure[k].param_type, sim_params_structure[k].param_order[j]>> :
                j \in 1..Len(sim_params_structure[k].param_order) } :
            k \in 1..Len(sim_params_structure) }

RECURSIVE KeySetsUpTo(_)
\* The sets of at most n schema keys.
KeySetsUpTo(n) ==
    IF n = 0 THEN {{}}
    ELSE KeySetsUpTo(n - 1) \cup {K \cup {x} : K \in KeySetsUpTo(n - 1), x \in SchemaKeys}

\* raw without the keys of K, each a <<subsystem, key>> pair.
OmitKeys(raw, K) ==
    [sec \in DOMAIN raw |-> Omit(raw[sec], {q[2] : q \in {r \in K : r[1] = sec}})]

MtfLists ==
    { ListV(SubSeq(MtfParams.s, 1, 4)), MtfParams, ListV(MtfParams.s \o <<FloatV(99)>>) }

ClassifyInputs ==
    { OmitKeys(FullRaw(m), K) : m \in MtfLists, K \in KeySetsUpTo(MaxOmit) }
    \cup { Omit(FullRaw(MtfParams), {sec}) : sec \in ParamTypes }

\* A tensor of n values: base, 2 * base, ...
Tensor(base, n) == [k \in 1..n |-> FloatV(base * k)]

Rotation ==
    [ relion_angle_rot |-> Tensor(100, MaxBatch),
      relion_angle_tilt |-> Tensor(10, MaxBatch),
      relion_angle_psi |-> Tensor(1, MaxBatch) ]

ShiftArgs ==
    { NoneV, [ shift_x |-> Tensor(15, MaxBatch), shift_y |-> Tensor(-25, MaxBatch) ] }

CtfArgs ==
    { NoneV,
      [ defocus_u |-> Tensor(11, MaxBatch), defocus_v |-> Tensor(12, MaxBatch),
        defocus_angle |-> Tensor(300, MaxBatch) ] }

IterationArgs == {7, 123}

StarConfig(batch_size) ==
    [ batch_size |-> batch_size, kv |-> IntV(300), pixel_size |-> FloatV(8),
      cs |-> FloatV(27), amplitude_contrast |-> FloatV(1), b_factor |-> IntV(0) ]

\* A row a previous run left in the list.
OldRow == << StrV(image_name(0, 0)), FloatV(0), FloatV(0), FloatV(0), IntV(300) >>

-----------------------------------------------------------------------------
(* Specifications *)

Files(parameters) ==
    [p \in AllPaths |->
        CASE p \in {ConfigYml, ConfigYAML, YmlBak} -> YamlFile(parameters)
          [] p \in {CrdTxt, NoSuffix, NoDot} -> TextFile(CrdLines)
          [] OTHER -> NoFile]

Idle ==
    /\ log = <<>>
    /\ opened = <<>>
    /\ call = [op |-> "none"]
    /\ outcome = [status |-> "none"]
    /\ tem_inputs = NoneV
    /\ built_by = [op |-> "none"]
    /\ rng = "unseeded"

\* Every entry point that takes a path, on every path.
InitFiles ==
    /\ fs \in {Files(c) : c \in FilesConfigs}
    /\ data_list = <<>>
    /\ Idle

NextFiles ==
    \/ \E p \in AllPaths : Populate(p, NoneV, NoneV)
    \/ \E p \in AllPaths : GetConfig(p)
    \/ \E p \in AllPaths : WriteInp(p)
    \/ \E p \in AllPaths : WriteDefocus(p, <<FloatV(10)>>)
    \/ \E p \in AllPaths : Retrieve(p)

SpecFiles == InitFiles /\ [][NextFiles]_vars

\* The builder and the .inp writer on every configuration.
InitTem ==
    /\ fs \in {[Files(c) EXCEPT ![ConfigYAML] = NoFile, ![YmlBak] = NoFile] : c \in TemConfigs}
    /\ data_list = <<>>
    /\ Idle

NextTem ==
    \/ \E dose \in DoseArgs, noise \in NoiseArgs : Populate(ConfigYml, dose, noise)
    \/ WriteInp(SimInp)

SpecTem == InitTem /\ [][NextTem]_vars

\* The defocus writer and the rotation reader on the .txt files.
InitDefocus ==
    /\ fs = Files(PlainConfig)
    /\ data_list = <<>>
    /\ Idle

NextDefocus ==
    \/ \E p \in {CrdTxt, AbsentYaml} : \E d \in Distributions : WriteDefocus(p, d)
    \/ \E p \in {CrdTxt, DefTXT, NoSuffix} : Retrieve(p)

SpecDefocus == InitDefocus /\ [][NextDefocus]_vars

\* The lines a text file is made of here: a comment, a row of three numbers,
\* a blank line, and a row whose second token is not a number.
CommentLine == <<"#", " ", "x">>
RowLine == <<"1", "0", " ", "2", "0", ".", "5", " ", "-", "3">>
BlankLine == <<>>
BadRowLine == <<"1", " ", "x">>
TextLines == {CommentLine, RowLine, BlankLine, BadRowLine}

\* The rotation reader on every text file of up to MaxLines such lines.
InitRetrieve ==
    /\ fs \in {[Files(PlainConfig) EXCEPT ![CrdTxt] = TextFile(ls)] :
                  ls \in SeqsUpTo(TextLines, MaxLines)}
    /\ data_list = <<>>
    /\ Idle

NextRetrieve == \E p \in {CrdTxt, DefTXT, NoSuffix} : Retrieve(p)

SpecRetrieve == InitRetrieve /\ [][NextRetrieve]_vars

\* The classifier on raw configurations with keys left out.
InitClassify ==
    /\ fs = Files(PlainConfig)
    /\ data_list = <<>>
    /\ Idle

\* The classifier is a pure function: one call per behaviour covers it.
NextClassify == call.op = "none" /\ \E raw \in ClassifyInputs : Classify(raw)

SpecClassify == InitClassify /\ [][NextClassify]_vars

\* Repeated calls of the row builder on one list.
InitStar ==
    /\ fs = Files(PlainConfig)
    /\ data_list \in {<<>>, <<OldRow>>}
    /\ Idle

NextStar ==
    \E b \in 0..MaxBatch, it \in IterationArgs, ctf \in CtfArgs, shift \in ShiftArgs :
        /\ Len(data_list) + b <= MaxRows
        /\ StarAppend(Rotation, ctf, shift, it, StarConfig(b))

SpecStar == InitStar /\ [][NextStar]_vars

Init == InitFiles
Next == NextFiles
Spec == SpecFiles

-----------------------------------------------------------------------------
(* Properties *)

OpPopulate == "populate_tem_input_parameter_dict"
OpGetConfig == "get_config_from_yaml"
OpWriteInp == "write_tem_inputs_to_inp_file"
OpWriteDefocus == "write_tem_defocus_file_from_distribution"
OpRetrieve == "retrieve_rotation_metadata"
OpClassify == "classify_input_config"
OpStarAppend == "starfile_append_tem_simulator_data"

\* The paths of the model each kind of entry point must accept: the suffix is,
\* up to case, .yml or .yaml, .inp, .txt.  Every other path must be refused.
AcceptedPaths(op) ==
    CASE op \in {OpPopulate, OpGetConfig} -> {ConfigYml, ConfigYAML, AbsentYaml}
      [] op = OpWriteInp -> {SimInp, SimINP}
      [] op \in {OpWriteDefocus, OpRetrieve} -> {CrdTxt, DefTXT}
      [] OTHER -> {}

PathOps == {OpPopulate, OpGetConfig, OpWriteInp, OpWriteDefocus, OpRetrieve}

\* The call ended with the extension error: an error record, then TypeError.
ExtensionError(l, o) ==
    /\ o = Raised("TypeError")
    /\ Len(l) = 1 /\ l[1].level = "error"

\* C1: a path-taking entry point raises no extension error on a path whose
\* suffix is, case-insensitively, one it allows; on every other path it logs
\* an error and raises TypeError without opening, creating, truncating or
\* reading any file.
C1_ExtensionCheck ==
    [][ call'.op \in PathOps =>
          IF call'.path \in AcceptedPaths(call'.op)
          THEN ~ExtensionError(log', outcome')
          ELSE /\ ExtensionError(log', outcome')
               /\ log'[1].path = call'.path
               /\ opened' = <<>>
               /\ fs' = fs ]_vars

\* A config file survives a defocus-writer call on its path, refused for its
\* suffix, after an .inp file was written under an upper-case suffix.
C1_Witness ==
    /\ call.op = OpWriteDefocus
    /\ call.path = ConfigYml
    /\ outcome = Raised("TypeError")
    /\ fs[ConfigYml].kind = "yaml"
    /\ fs[SimINP].kind = "text"

\* The values of the lines "<key> = ..." of a file, in file order.
LineValues(lines, key) ==
    LET hits == SelectSeq(lines, LAMBDA l : "key" \in DOMAIN l /\ l.key = key)
    IN  [k \in 1..Len(hits) |-> hits[k].val]

\* The .inp writer has just written the dictionary the builder returned.
InpWritten == call.op = OpWriteInp /\ outcome = Returned(NoneV)

WrittenLines == fs[call.path].lines

\* The configuration the builder call behind tem_inputs read.
BuiltFrom == fs[built_by.path].parameters

\* C2: the dose_per_im line carries the dose argument when it is not None and
\* the YAML electron_dose_e_per_nm2 otherwise; the use_quantization line
\* carries the noise argument when it is not None and the YAML noise otherwise.
C2_Overrides ==
    InpWritten =>
        /\ LineValues(WrittenLines, "dose_per_im") =
             << PyStr(IF built_by.dose # NoneV THEN built_by.dose
                      ELSE BuiltFrom["beam_parameters"]["electron_dose_e_per_nm2"]) >>
        /\ LineValues(WrittenLines, "use_quantization") =
             << PyStr(IF built_by.noise # NoneV THEN built_by.noise
                      ELSE BuiltFrom["detector_parameters"]["noise"]) >>

\* Both overrides given, each different from the YAML value, and written.
C2_Witness ==
    /\ InpWritten
    /\ built_by.dose = IntV(5000)
    /\ built_by.noise = StrV(YES)
    /\ BuiltFrom["detector_parameters"]["noise"] = StrV(NO)
    /\ LineValues(WrittenLines, "dose_per_im") = << <<"5", "0", "0", "0">> >>
    /\ LineValues(WrittenLines, "use_quantization") = <<YES>>

\* C3: with both ctf sub-fields the .inp has gen_defocus = no and a
\* defocus_file_in line carrying the defocus_file argument; without
\* ctf_parameters, or with a sub-field missing, it has gen_defocus = yes and no
\* defocus_file_in line.  In every dictionary built, optics.gen_defocus is
\* 'no' exactly when optics.defocus_file_in is not None.
C3_CtfBranch ==
    /\ InpWritten =>
         IF /\ "ctf_parameters" \in DOMAIN BuiltFrom
            /\ {"distribution_type", "distribution_parameters"}
                 \subseteq DOMAIN BuiltFrom["ctf_parameters"]
         THEN /\ LineValues(WrittenLines, "gen_defocus") = <<NO>>
              /\ LineValues(WrittenLines, "defocus_file_in") = <<built_by.defocus_file>>
         ELSE /\ LineValues(WrittenLines, "gen_defocus") = <<YES>>
              /\ LineValues(WrittenLines, "defocus_file_in") = <<>>
    /\ tem_inputs # NoneV =>
         (tem_inputs["optics"]["gen_defocus"] = StrV(NO)
            <=> tem_inputs["optics"]["defocus_file_in"] # NoneV)

\* A configuration with distribution_type alone, written with gen_defocus = yes.
C3_Witness ==
    /\ InpWritten
    /\ "ctf_parameters" \in DOMAIN BuiltFrom
    /\ DOMAIN BuiltFrom["ctf_parameters"] = {"distribution_type"}
    /\ LineValues(WrittenLines, "gen_defocus") = <<YES>>

\* The YAML fields that round-trip and the line each is written on.
RoundTrip ==
    { <<"beam_parameters", "voltage_kv", "acc_voltage">>,
      <<"beam_parameters", "energy_spread_v", "energy_spread">>,
      <<"beam_parameters", "electron_dose_std_e_per_nm2", "dose_sd">>,
      <<"optics_parameters", "magnification", "magnification">>,
      <<"optics_parameters", "spherical_aberration_mm", "cs">>,
      <<"optics_parameters", "chromatic_aberration_mm", "cc">>,
      <<"optics_parameters", "aperture_diameter_um", "aperture">>,
      <<"optics_parameters", "focal_length_mm", "focal_length">>,
      <<"optics_parameters", "aperture_angle_mrad", "cond_ap_angle">>,
      <<"detector_parameters", "detector_nx_px", "det_pix_x">>,
      <<"detector_parameters", "detector_ny_px", "det_pix_y">>,
      <<"detector_parameters", "detector_pixel_size_um", "pixel_size">>,
      <<"detector_parameters", "average_gain_count_per_electron", "gain">>,
      <<"detector_parameters", "detector_q_efficiency", "dqe">>,
      <<"molecular_model", "voxel_size_nm", "voxel_size">>,
      <<"geometry_parameters", "n_samples", "ntilts">> }

\* C4: after the builder and the .inp writer, each round-trip field of the
\* YAML, a supplied miscellaneous.seed, and the log_file, pdb_file, crd_file
\* and mrc_file arguments stand unchanged on their lines.
C4_RoundTrip ==
    InpWritten =>
        /\ \A f \in RoundTrip :
              LineValues(WrittenLines, f[3]) = << PyStr(BuiltFrom[f[1]][f[2]]) >>
        /\ Has2(BuiltFrom, "miscellaneous", "seed") =>
              LineValues(WrittenLines, "rand_seed") =
                  << PyStr(BuiltFrom["miscellaneous"]["seed"]) >>
        /\ LineValues(WrittenLines, "log_file") = <<built_by.log_file>>
        /\ LineValues(WrittenLines, "pdb_file_in") = <<built_by.pdb_file>>
        /\ LineValues(WrittenLines, "coord_file_in") = <<built_by.crd_file>>
        /\ LineValues(WrittenLines, "image_file_out") = <<built_by.mrc_file>>

\* A written file with the configured seed and the two aberrations on their lines.
C4_Witness ==
    /\ InpWritten
    /\ LineValues(WrittenLines, "rand_seed") = << <<"1", "2", "3", "4">> >>
    /\ LineValues(WrittenLines, "cs") = << <<"2", ".", "7">> >>
    /\ LineValues(WrittenLines, "cc") = << <<"2", ".", "8">> >>
    /\ LineValues(WrittenLines, "acc_voltage") = << <<"3", "0", "0">> >>

\* C5: the lines mtf_a, mtf_b, mtf_c, mtf_alpha and mtf_beta carry
\* detector_parameters.mtf_params[0..4], whether or not defocus_um is present.
C5_MtfRoundTrip ==
    InpWritten =>
        LET mtf == BuiltFrom["detector_parameters"]["mtf_params"].s
        IN  /\ LineValues(WrittenLines, "mtf_a") = <<PyStr(mtf[1])>>
            /\ LineValues(WrittenLines, "mtf_b") = <<PyStr(mtf[2])>>
            /\ LineValues(WrittenLines, "mtf_c") = <<PyStr(mtf[3])>>
            /\ LineValues(WrittenLines, "mtf_alpha") = <<PyStr(mtf[4])>>
            /\ LineValues(WrittenLines, "mtf_beta") = <<PyStr(mtf[5])>>

\* The classifier was called on a configuration holding all five subsystems.
Classified == call.op = OpClassify /\ ParamTypes \subseteq DOMAIN call.raw_params

\* [mapping.get(key) for key in keys]
GetAll(mapping, keys) == [k \in 1..Len(keys) |-> Get(mapping, keys[k])]

\* C6: the classifier returns each subsystem's values in schema order: lists
\* of 3, 4, 4 and 10 entries and, for a detector block with a 5-element
\* mtf_params, 11 entries: the six scalar fields, then the five MTF elements.
C6_Classified ==
    (Classified /\ outcome.status = "returned") =>
        LET raw == call.raw_params
            out == outcome.value
            mtf == raw["detector_parameters"]["mtf_params"].s
        IN  /\ DOMAIN out = {"molecular_model", "specimen_grid_params", "beam_parameters",
                             "optics_parameters", "detector_parameters"}
            /\ out["molecular_model"] =
                 GetAll(raw["molecular_model"],
                        <<"voxel_size_nm", "particle_name", "particle_mrcout">>)
            /\ out["specimen_grid_params"] =
                 GetAll(raw["specimen_grid_params"],
                        <<"hole_diameter_nm", "hole_thickness_center_nm",
                          "hole_thickness_edge_nm", "particle_slice_pad">>)
            /\ out["beam_parameters"] =
                 GetAll(raw["beam_parameters"],
                        <<"voltage_kv", "energy_spread_v", "electron_dose_e_nm2",
                          "electron_dose_std_e_per_nm2">>)
            /\ out["optics_parameters"] =
                 GetAll(raw["optics_parameters"],
                        <<"magnification", "spherical_aberration_mm",
                          "chromatic_aberration_mm", "aperture_diameter_um",
                          "focal_length_mm", "aperture_angle_mrad", "defocus_um",
                          "defocus_syst_error_um", "defocus_nonsyst_error_um",
                          "optics_defocusout">>)
            /\ Len(out["molecular_model"]) = 3
            /\ Len(out["specimen_grid_params"]) = 4
            /\ Len(out["beam_parameters"]) = 4
            /\ Len(out["optics_parameters"]) = 10
            /\ Len(mtf) = 5 =>
                 /\ Len(out["detector_parameters"]) = 11
                 /\ out["detector_parameters"] =
                      GetAll(raw["detector_parameters"],
                             <<"detector_nx_px", "detector_ny_px",
                               "detector_pixel_size_um",
                               "average_gain_count_per_electron", "noise",
                               "detector_q_efficiency">>)
                      \o mtf

\* A complete configuration classified: the detector list ends with the MTF list.
C6_Witness ==
    /\ call.op = OpClassify
    /\ call.raw_params = FullRaw(MtfParams)
    /\ outcome.status = "returned"
    /\ SubSeq(outcome.value["detector_parameters"], 7, 11) = MtfParams.s
    /\ outcome.value["beam_parameters"][3] = IntV(150)

\* The slot (1-based) of a key in its subsystem's schema order.
Slot(sec, key) == CHOOSE j \in 1..Len(ParamOrder(sec)) : ParamOrder(sec)[j] = key

\* The schema keys missing from their subsystem mapping in raw.
MissingKeys(raw) == {q \in SchemaKeys : q[2] \notin DOMAIN raw[q[1]]}

MtfKey == <<"detector_parameters", "mtf_params">>

\* C7 as claimed: whichever schema keys are missing, mtf_params included, the
\* call returns and each missing key's slot holds None.
C7_AnyMissingKeyIsNone ==
    (Classified /\ MissingKeys(call.raw_params) # {}
       /\ (MtfKey \notin MissingKeys(call.raw_params)
             => Len(call.raw_params["detector_parameters"]["mtf_params"].s) >= 5)) =>
        /\ outcome.status = "returned"
        /\ \A q \in MissingKeys(call.raw_params) :
             outcome.value[q[1]][Slot(q[1], q[2])] = NoneV

\* C7 amended: with mtf_params present (at least five elements), the call
\* returns and every missing schema key's slot holds None; with mtf_params
\* missing the call raises TypeError.
C7_MissingKeyIsNoneButMtf ==
    Classified =>
        IF MtfKey \in MissingKeys(call.raw_params)
        THEN outcome = Raised("TypeError")
        ELSE Len(call.raw_params["detector_parameters"]["mtf_params"].s) >= 5 =>
               /\ outcome.status = "returned"
               /\ \A q \in MissingKeys(call.raw_params) :
                    outcome.value[q[1]][Slot(q[1], q[2])] = NoneV

\* Two keys missing, noise and defocus_um: both slots None, the call returned.
C7_Witness ==
    /\ Classified
    /\ MissingKeys(call.raw_params) =
         {<<"detector_parameters", "noise">>, <<"optics_parameters", "defocus_um">>}
    /\ outcome.status = "returned"
    /\ outcome.value["detector_parameters"][5] = NoneV
    /\ outcome.value["optics_parameters"][7] = NoneV

\* The spec's example distribution [1.0, 2.5, -3.0].
ExampleDistribution == <<FloatV(10), FloatV(25), FloatV(-30)>>

\* C8: the defocus writer, given a .txt path and N entries, leaves a file of
\* exactly N + 2 lines: the banner, "<N> 1", then one line per entry in input
\* order; nothing of the previous content remains.
C8_DefocusFile ==
    (call.op = OpWriteDefocus /\ outcome.status = "returned") =>
        LET file == fs[call.path]
            dist == call.distribution
        IN  /\ file.kind = "text"
            /\ Len(file.lines) = Len(dist) + 2
            /\ file.lines[1] = Banner
            /\ Len(Banner) = 45
            /\ file.lines[2] = Dec(Len(dist)) \o <<" ", "1">>
            /\ \A k \in 1..Len(dist) : file.lines[k + 2] = PyStr(dist[k])
            /\ dist = ExampleDistribution =>
                 file.lines = << Banner, <<"3", " ", "1">>, <<"1", ".", "0">>,
                                 <<"2", ".", "5">>, <<"-", "3", ".", "0">> >>
            /\ dist = <<>> => file.lines = << Banner, <<"0", " ", "1">> >>

\* The six-line coordinate file overwritten by the example distribution.
C8_Witness ==
    /\ call.op = OpWriteDefocus
    /\ call.path = CrdTxt
    /\ call.distribution = ExampleDistribution
    /\ outcome.status = "returned"
    /\ Len(fs[CrdTxt].lines) = 5
    /\ Len(CrdLines) = 6

\* The row the claim gives for index n (0-based) of a call.
ClaimedRow(c, n) ==
    << StrV(zfill(Dec(n), 3) \o <<"@">> \o zfill(Dec(c.iterations), 4)
              \o <<".", "m", "r", "c", "s">>),
       c.rotation["relion_angle_rot"][n + 1],
       c.rotation["relion_angle_tilt"][n + 1],
       c.rotation["relion_angle_psi"][n + 1] >>
    \o (IF c.shift # NoneV
        THEN <<c.shift["shift_x"][n + 1], c.shift["shift_y"][n + 1]>> ELSE <<>>)
    \o (IF c.ctf # NoneV
        THEN << FloatV(10000 * c.ctf["defocus_u"][n + 1].i),
                FloatV(10000 * c.ctf["defocus_v"][n + 1].i),
                RadV(c.ctf["defocus_angle"][n + 1].i) >>
        ELSE <<>>)
    \o << c.config.kv, c.config.pixel_size, c.config.cs, c.config.amplitude_contrast,
          c.config.b_factor >>

\* C9: a call leaves the list as it was given, followed by batch_size new rows
\* in index order, each of the claimed form and of length 9, 11, 12 or 14,
\* and returns that list.
C9_RowsAppended ==
    call.op = OpStarAppend =>
        /\ Len(data_list) = Len(call.before) + call.config.batch_size
        /\ SubSeq(data_list, 1, Len(call.before)) = call.before
        /\ \A n \in 0..(call.config.batch_size - 1) :
             /\ data_list[Len(call.before) + n + 1] = ClaimedRow(call, n)
             /\ Len(ClaimedRow(call, n)) \in {9, 11, 12, 14}
             /\ Len(ClaimedRow(call, n)) =
                  9 + (IF call.shift # NoneV THEN 2 ELSE 0)
                    + (IF call.ctf # NoneV THEN 3 ELSE 0)
        /\ outcome = Returned(data_list)

\* The spec's example, batch size 2 and batch index 7 without shift or CTF,
\* appended to a list that held one old row.
C9_Witness ==
    /\ call.op = OpStarAppend
    /\ call.config.batch_size = 2 /\ call.iterations = 7
    /\ call.shift = NoneV /\ call.ctf = NoneV
    /\ Len(call.before) = 1
    /\ data_list[1] = OldRow
    /\ data_list[2] = << StrV(<<"0", "0", "0", "@", "0", "0", "0", "7", ".", "m", "r", "c", "s">>),
                         FloatV(100), FloatV(10), FloatV(1),
                         IntV(300), FloatV(8), FloatV(27), FloatV(1), IntV(0) >>
    /\ data_list[3][1] =
         StrV(<<"0", "0", "1", "@", "0", "0", "0", "7", ".", "m", "r", "c", "s">>)
    /\ data_list[3][2] = FloatV(200)

\* The builder returned a dictionary.
Built == call.op = OpPopulate /\ outcome.status = "returned"

BuiltSeed == outcome.value["simulation"]["seed"]

\* x <= y for wide ints.
BigLE(x, y) == x.hi < y.hi \/ (x.hi = y.hi /\ x.i <= y.i)

TenToTheTen == BigV(Limb, 0)

\* C10 as claimed: a configured seed is used; a drawn one is at least 0 and
\* strictly below 10^10.
C10_SeedBelowUpper ==
    Built =>
        LET p == fs[call.path].parameters
        IN  IF Has2(p, "miscellaneous", "seed")
            THEN BuiltSeed = p["miscellaneous"]["seed"]
            ELSE /\ BigLE(IntV(0), BuiltSeed)
                 /\ BigLE(BuiltSeed, TenToTheTen) /\ BuiltSeed # TenToTheTen

\* C10 amended: a configured seed is used; a drawn one is an integer from 0 to
\* 10^10, both ends included.
C10_SeedUpToUpper ==
    Built =>
        LET p == fs[call.path].parameters
        IN  IF Has2(p, "miscellaneous", "seed")
            THEN BuiltSeed = p["miscellaneous"]["seed"]
            ELSE /\ BuiltSeed.t = "int"
                 /\ BigLE(IntV(0), BuiltSeed)
                 /\ BigLE(BuiltSeed, TenToTheTen)

\* No seed configured (miscellaneous present without it) and 10^10 drawn.
C10_Witness ==
    /\ Built
    /\ "miscellaneous" \in DOMAIN fs[call.path].parameters
    /\ ~Has2(fs[call.path].parameters, "miscellaneous", "seed")
    /\ BuiltSeed = TenToTheTen
    /\ PyStr(BuiltSeed) = <<"1", "0", "0", "0", "0", "0", "0", "0", "0", "0", "0">>

\* C11: every dictionary the builder returns has the four optional output
\* fields as keys, holding a value or None: particle.map_file_re_out,
\* particle.map_file_im_out, optics.defocus_file_out, optics.defocus_file_in.
C11_OptionalKeysPresent ==
    Built =>
        /\ {"map_file_re_out", "map_file_im_out"} \subseteq DOMAIN outcome.value["particle"]
        /\ {"defocus_file_out", "defocus_file_in"} \subseteq DOMAIN outcome.value["optics"]

\* C12: a builder call changes nothing outside its returned dictionary: the
\* files and the process-wide random generator are as they were before it.
C12_NoSideEffects ==
    [][ call'.op = OpPopulate => fs' = fs /\ rng' = rng /\ data_list' = data_list ]_vars

\* The number of rows the reader owes for a file: its lines after the fourth.
RowsOwed(lines) == IF Len(lines) > 4 THEN Len(lines) - 4 ELSE 0

\* The reader was called on an existing file with a .txt suffix.
Retrieved ==
    /\ call.op = OpRetrieve
    /\ Lower(Suffix(call.path)) = TXT
    /\ fs[call.path] # NoFile

SectionLines(lines, name) ==
    LET at == CHOOSE k \in 1..Len(lines) : "hdr" \in DOMAIN lines[k] /\ lines[k].hdr = name
        later == {k \in (at + 1)..Len(lines) : "hdr" \in DOMAIN lines[k]}
        stop == IF later = {} THEN Len(lines) + 1
                ELSE CHOOSE k \in later : \A j \in later : k <= j
    IN  SubSeq(lines, at + 1, stop - 1)

\* C14: in the optics section no key stands on two lines, and there is one
\* defocus_syst_error line with optics.defocus_syst_error and one
\* defocus_nonsyst_error line with optics.defocus_nonsyst_error.
C14_DefocusErrorLines ==
    InpWritten =>
        LET optics == SectionLines(WrittenLines, "optics")
        IN  /\ \A j, k \in 1..Len(optics) : optics[j].key = optics[k].key => j = k
            /\ LineValues(optics, "defocus_syst_error") =
                 << PyStr(tem_inputs["optics"]["defocus_syst_error"]) >>
            /\ LineValues(optics, "defocus_nonsyst_error") =
                 << PyStr(tem_inputs["optics"]["defocus_nonsyst_error"]) >>

=============================================================================
